---- MODULE Spec2Model ----
(***************************************************************************)
(* A model of naan: the lazy computation engine (src/src/io) and the       *)
(* Traversable adapters (src/src/impls).                                   *)
(*                                                                         *)
(* Values are symbolic terms, so that the result of a computation records  *)
(* which callable was applied to which argument:                           *)
(*   <<"v", n>>          a plain value                                     *)
(*   <<"unit">>          ()                                                *)
(*   <<"fn", k>>         the callable with identity k                      *)
(*   <<"call", f, x>>    what the callable (or function value) f returns   *)
(*                       when it is called with x                          *)
(***************************************************************************)
EXTENDS Integers, Sequences, FiniteSets, TLC

\* ------------------------------------------------------------------ bounds
\* callables 1..MaxFn may be stored in nodes
MaxFn == 2
\* the nodes held by the program's variables, all together
MaxSize == 3
\* exec calls made on the value held by one variable
MaxExec == 2
\* the elements 1..MaxElem a container may hold
MaxElem == 4
\* the elements (or slots, or keys) of a container
MaxLen == 3
\* the arguments 1..MaxArg a callable may be given
MaxArg == 2
\* calls made on the callables of one run
MaxCalls == 3
\* the functions composed into one callable
MaxChain == 3

\* the lazy computation engine
VARIABLES io, runs, op, execd, log, result, ran, invoked
\* an operation on a container: the container, the second operand (or the
\* functions) of the operation, the target applicative of a traversal, the elements the
\* traversal function fails on, the operation applied, what it returned and
\* the elements the traversal function was called with, in order
VARIABLES ty, src, arg, ap, fail, phase, out, calls

\* callables: the original callable, the curried or composed callable held,
\* the callable the last call was made on, the arguments supplied along the chain to reach it, the value the last
\* operation returned and the arguments supplied to reach that, the
\* invocations of original callables the last operation made, the last
\* operation and the number of calls made
VARIABLES orig, node, called, given, got, supplied, last, cop, ncalls

iovars == <<io, runs, op, execd, log, result, ran, invoked>>
tvars == <<ty, src, arg, ap, fail, phase, out, calls>>
cvars == <<orig, node, called, given, got, supplied, last, cop, ncalls>>
vars == <<iovars, tvars, cvars>>

\* ------------------------------------------------------------------ values
Fns == 1..MaxFn
Unit == <<"unit">>
Atom == <<"v", 0>>
NoVal == <<"none">>
Fn(k) == <<"fn", k>>

\* F1Once::call1 on a symbolic callable or function value
call1(f, x) == <<"call", f, x>>

\* A closure or fn item is Clone/Copy when everything it captures is; the
\* callables with an odd identity stand for those, the ones with an even
\* identity for closures that own a capture that cannot be duplicated.
FnIsClone(k) == k % 2 = 1

\* ------------------------------------------------------------------- nodes
Empty == [kind |-> "none"]
Slots == {"x", "y"}

\* What a bind function returns: IO::pure of something computed from its
\* argument (all that bind_ accepts), or, through Bind::new, a Suspend.
Rets == {[kind |-> "pure"]} \cup {[kind |-> "suspend", f |-> k] : k \in Fns}

\* A callable invocation: the node (its path from the executed node) that
\* made it, and the callable or function value invoked.
Ev(p, f) == [at |-> p, fn |-> f]

\* Every constructor and exec yields what it returns and the callable
\* invocations it made, in order.
Built(n) == [node |-> n, ev |-> <<>>]

pure(t) == Built([kind |-> "pure", val |-> t])

suspend(f) == Built([kind |-> "suspend", f |-> f])

map_MutEager(f, ioa) == [node |-> [kind |-> "map", f |-> f, io |-> ioa],
                         ev |-> <<Ev(<<>>, Fn(f))>>]
map_(f, ioa) == Built([kind |-> "map", f |-> f, io |-> ioa])

bind_(f, ret, ioa) == Built([kind |-> "bind", f |-> f, io |-> ioa, ret |-> ret])

apply_(ioab, ioa) == Built([kind |-> "apply", iof |-> ioab, ioa |-> ioa])

RECURSIVE Size(_)
Size(n) ==
  CASE n.kind = "none" -> 0
    [] n.kind \in {"pure", "suspend"} -> 1
    [] n.kind \in {"map", "bind"} -> 1 + Size(n.io)
    [] n.kind = "apply" -> 1 + Size(n.iof) + Size(n.ioa)

\* Suspend derives Clone and Copy; Map and Bind are Clone/Copy when the
\* stored callable and the predecessor are; IO and Apply are neither.
RECURSIVE IsCloneMutApply(_)
IsCloneMutApply(n) ==
  CASE n.kind = "suspend" -> FnIsClone(n.f)
    [] n.kind \in {"map", "bind"} -> FnIsClone(n.f) /\ IsCloneMutApply(n.io)
    [] n.kind = "apply" -> TRUE
    [] OTHER -> FALSE
RECURSIVE IsClone(_)
IsClone(n) ==
  CASE n.kind = "suspend" -> FnIsClone(n.f)
    [] n.kind \in {"map", "bind"} -> FnIsClone(n.f) /\ IsClone(n.io)
    [] OTHER -> FALSE

\* The node a bind function returns for the argument a.
BindRet(n, a) ==
  IF n.ret.kind = "pure"
    THEN [kind |-> "pure", val |-> call1(Fn(n.f), a)]
    ELSE [kind |-> "suspend", f |-> n.ret.f]

\* -------------------------------------------------------------------- exec
\* The callables that panic when they are invoked are those of fail; a
\* panic unwinds through every frame, none of which catches it, so an exec
\* that a panic unwinds through yields Panicked and the invocations made
\* until then.
Panicked == <<"panic">>
Panics(f) == f[1] = "fn" /\ f[2] \in fail

\* f.call1(x) at the node p, after the invocations before
Invoke(f, x, p, before) ==
  [val |-> IF Panics(f) THEN Panicked ELSE call1(f, x),
   ev |-> before \o <<Ev(p, f)>>]

RECURSIVE exec(_, _)

IO_exec(n, p) == [val |-> n.val, ev |-> <<>>]

Suspend_execMutTwice(n, p) ==
  [val |-> call1(Fn(n.f), Unit), ev |-> <<Ev(p, Fn(n.f)), Ev(p, Fn(n.f))>>]
Suspend_exec(n, p) == Invoke(Fn(n.f), Unit, p, <<>>)

Map_execMutFirst(n, p) ==
  LET x == exec(n.io, p \o <<"io">>)
  IN  [val |-> call1(Fn(n.f), x.val), ev |-> <<Ev(p, Fn(n.f))>> \o x.ev]
Map_exec(n, p) ==
  LET x == exec(n.io, p \o <<"io">>)
  IN  IF x.val = Panicked THEN x ELSE Invoke(Fn(n.f), x.val, p, x.ev)

Bind_execMutCatch(n, p) ==
  LET x == exec(n.io, p \o <<"io">>)
      r == Invoke(Fn(n.f), x.val, p, x.ev)
      y == exec(BindRet(n, x.val), p \o <<"ret">>)
  IN  [val |-> y.val, ev |-> r.ev \o y.ev]
Bind_exec(n, p) ==
  LET x == exec(n.io, p \o <<"io">>)
      r == Invoke(Fn(n.f), x.val, p, x.ev)
      y == exec(BindRet(n, x.val), p \o <<"ret">>)
  IN  IF x.val = Panicked THEN x
      ELSE IF r.val = Panicked THEN r
      ELSE [val |-> y.val, ev |-> r.ev \o y.ev]

Apply_execMutArgFirst(n, p) ==
  LET f == exec(n.iof, p \o <<"f">>)
      a == exec(n.ioa, p \o <<"a">>)
  IN  [val |-> call1(f.val, a.val), ev |-> a.ev \o f.ev \o <<Ev(p, f.val)>>]
Apply_exec(n, p) ==
  LET f == exec(n.iof, p \o <<"f">>)
      a == exec(n.ioa, p \o <<"a">>)
  IN  IF f.val = Panicked THEN f
      ELSE IF a.val = Panicked THEN [val |-> Panicked, ev |-> f.ev \o a.ev]
      ELSE Invoke(f.val, a.val, p, f.ev \o a.ev)

exec(n, p) ==
  CASE n.kind = "pure" -> IO_exec(n, p)
    [] n.kind = "suspend" -> Suspend_exec(n, p)
    [] n.kind = "map" -> Map_exec(n, p)
    [] n.kind = "bind" -> Bind_exec(n, p)
    [] n.kind = "apply" -> Apply_exec(n, p)

\* ------------------------------------------------- Option, Result, currying
None == [tag |-> "None"]
Some(x) == [tag |-> "Some", v |-> x]
Ok(x) == [tag |-> "Ok", v |-> x]
Err(e) == [tag |-> "Err", e |-> e]
Nothing == [tag |-> "Nothing"]
Just(x) == [tag |-> "Just", v |-> x]

\* Append an element to a vec
Vec_append(t, v) == Append(v, t)

\* Append an element to an ArrayVec of optional slots
ArrayVec_appendMutFront(t, v) == <<Some(t)>> \o v
ArrayVec_append(t, v) == Append(v, Some(t))

\* Insert an item into a map
BTreeMap_insert(k, a, map) ==
  [x \in DOMAIN map \cup {k} |-> IF x = k THEN a ELSE map[x]]

\* fn items, called with all their arguments
\* The other callables are symbolic: calling one returns a term that records
\* the callable and the arguments in their positions. The arguments given to
\* them are the terms Arg(n) and the terms other calls returned.
Arg(n) == [fn |-> "arg", n |-> n]
Ret(f, args) == [fn |-> "ret", f |-> f, args |-> args]

F2_call(f, a, b) ==
  CASE f = "Vec::append" -> Vec_append(a, b)
    [] f = "ArrayVec::append" -> ArrayVec_append(a, b)
    [] OTHER -> Ret(f, <<a, b>>)

F3_call(f, a, b, c) ==
  CASE f = "BTreeMap::insert" -> BTreeMap_insert(a, b, c)
    [] OTHER -> Ret(f, <<a, b, c>>)

\* An invocation of a callable, and what a call returns: its value and the
\* invocations of original callables it made, in order
Inv(f, args) == [f |-> f, args |-> args]
Returned(v, inv) == [val |-> v, inv |-> inv]
\* the same for a call on a reference, with the callable as the call leaves it
Kept(v, inv, self) == [val |-> v, inv |-> inv, self |-> self]

\* Option::unwrap, which panics on None
Unwound == [fn |-> "panic"]
Option_unwrap(o) == IF o.tag = "Some" THEN o.v ELSE Unwound

\* f.curry(): the chain node that waits for the first argument
Curry2_curryMutInvkd(f) == [fn |-> "Curry2", f |-> f, a |-> None, sa |-> "Invkd"]
Curry2_curry(f) == [fn |-> "Curry2", f |-> f, a |-> None, sa |-> "Waiting"]

\* Clone for Curry2: f and a cloned, the argument state kept
Curry2_clone(c) == [fn |-> "Curry2", f |-> c.f, a |-> c.a, sa |-> c.sa]
Curry3_curry(f) == [fn |-> "Curry3", f |-> f, a |-> Nothing, b |-> Nothing]

\* uncurry is defined for Applied0 only
Curry2_hasUncurryMutAny(c) == TRUE
Curry2_hasUncurry(c) == c.sa = "Waiting"
Curry3_hasUncurry(c) == c.a.tag = "Nothing" /\ c.b.tag = "Nothing"

Curry2_uncurry(c) == c.f
Curry3_uncurry(c) == c.f

\* call1: Applied0 takes the first argument, Applied1 the second and calls f
Curry2_call1MutEager(c, x) ==
  IF c.sa = "Waiting"
    THEN Returned([fn |-> "Curry2", f |-> c.f, a |-> Some(x), sa |-> "Invkd"],
                  <<Inv(c.f, <<x, x>>)>>)
    ELSE Returned(F2_call(c.f, c.a.v, x), <<Inv(c.f, <<c.a.v, x>>)>>)
Curry2_call1(c, x) ==
  IF c.sa = "Waiting"
    THEN Returned([fn |-> "Curry2", f |-> c.f, a |-> Some(x), sa |-> "Invkd"], <<>>)
    ELSE LET a == Option_unwrap(c.a)
         IN  IF c.a.tag # "Some" THEN Returned(a, <<>>)
             ELSE Returned(F2_call(c.f, a, x), <<Inv(c.f, <<a, x>>)>>)

\* call: the same on a reference, with f and the stored argument cloned;
\* self.a.as_ref().cloned() leaves the stored argument where it is
Curry2_callMutLeak(c, x) ==
  IF c.sa = "Waiting"
    THEN Kept([fn |-> "Curry2", f |-> c.f, a |-> Some(x), sa |-> "Invkd"], <<>>, c)
    ELSE LET a == Option_unwrap(c.a)
         IN  IF c.a.tag # "Some" THEN Kept(a, <<>>, c)
             ELSE Kept(F2_call(c.f, a, x), <<Inv(c.f, <<a, x>>)>>,
                       [c EXCEPT !.a = Some(x)])
Curry2_call(c, x) ==
  IF c.sa = "Waiting"
    THEN Kept([fn |-> "Curry2", f |-> c.f, a |-> Some(x), sa |-> "Invkd"], <<>>, c)
    ELSE LET a == Option_unwrap(c.a)
         IN  IF c.a.tag # "Some" THEN Kept(a, <<>>, c)
             ELSE Kept(F2_call(c.f, a, x), <<Inv(c.f, <<a, x>>)>>, c)

\* call1: Applied0 and Applied1 take an argument, Applied2 the last and calls f
Curry3_call1(c, x) ==
  CASE c.a.tag = "Nothing" -> Returned([c EXCEPT !.a = Just(x)], <<>>)
    [] c.a.tag = "Just" /\ c.b.tag = "Nothing" ->
         Returned([c EXCEPT !.b = Just(x)], <<>>)
    [] c.a.tag = "Just" /\ c.b.tag = "Just" ->
         Returned(F3_call(c.f, c.a.v, c.b.v, x), <<Inv(c.f, <<c.a.v, c.b.v, x>>)>>)

\* call: the same on a reference, with f and the stored arguments cloned
Curry3_callMutSwap(c, x) ==
  CASE c.a.tag = "Nothing" -> Kept([c EXCEPT !.a = Just(x)], <<>>, c)
    [] c.a.tag = "Just" /\ c.b.tag = "Nothing" ->
         Kept([c EXCEPT !.b = Just(x)], <<>>, c)
    [] c.a.tag = "Just" /\ c.b.tag = "Just" ->
         Kept(F3_call(c.f, c.b.v, c.a.v, x), <<Inv(c.f, <<c.b.v, c.a.v, x>>)>>, c)
Curry3_call(c, x) ==
  CASE c.a.tag = "Nothing" -> Kept([c EXCEPT !.a = Just(x)], <<>>, c)
    [] c.a.tag = "Just" /\ c.b.tag = "Nothing" ->
         Kept([c EXCEPT !.b = Just(x)], <<>>, c)
    [] c.a.tag = "Just" /\ c.b.tag = "Just" ->
         Kept(F3_call(c.f, c.a.v, c.b.v, x), <<Inv(c.f, <<c.a.v, c.b.v, x>>)>>, c)

\* The traversal functions of the model: "f" fails on the elements of
\* f.fail and succeeds with n * 10 on the others, "g" has no outcome for the
\* elements of g.fail and the outcomes n * 10 and n * 20 for the others;
\* "id" is the |a| a of sequence.
TraverseFn(Ap, S) == [fn |-> "f", Ap |-> Ap, fail |-> S]
OutcomesFn(S) == [fn |-> "g", fail |-> S]
IdFn == [fn |-> "id"]

\* ------------------------------------------------------------------ pure
\* The identity wrapper
Id(a) == [tag |-> "Id", v |-> a]

Result_pure(a) == Ok(a)
Option_pure(a) == Some(a)
Vec_pure(a) == <<a>>
ArrayVec_pureMutSpareSlot(a) == <<Some(a), None>>
ArrayVec_pure(a) == <<Some(a)>>
Id_pure(a) == Id(a)

\* Applicative::pure of the container with marker Ap
Ap_pure(Ap, a) ==
  CASE Ap = "Result" -> Result_pure(a)
    [] Ap = "Option" -> Option_pure(a)
    [] Ap = "Vec" -> Vec_pure(a)
    [] Ap = "ArrayVec" -> ArrayVec_pure(a)
    [] Ap = "Id" -> Id_pure(a)

\* The functions A -> M<B> handed to bind: pure itself, one that always
\* fails (where M can fail), one that grows the value or the sequence, and
\* one that keeps even values and fails on odd ones
Kleislis == {"pure", "fail", "grow", "pick"}
Kleisli(M, k) == [fn |-> "Kleisli", M |-> M, k |-> k]
Kleisli_call(M, k, x) ==
  CASE k = "pure" -> Ap_pure(M, x)
    [] k = "fail" ->
         (CASE M = "Option" -> None
            [] M = "Result" -> Err(x)
            [] M = "Vec" -> <<>>
            [] M = "ArrayVec" -> <<>>
            [] M = "Id" -> Id(0))
    [] k = "grow" ->
         (CASE M = "Option" -> Some(x + 1)
            [] M = "Result" -> Ok(x + 1)
            [] M = "Vec" -> <<x, x + 1>>
            [] M = "ArrayVec" -> <<Some(x), Some(x + 1)>>
            [] M = "Id" -> Id(x + 1))
    [] k = "pick" ->
         (CASE M = "Option" -> IF x % 2 = 0 THEN Some(x * 2) ELSE None
            [] M = "Result" -> IF x % 2 = 0 THEN Ok(x * 2) ELSE Err(x)
            [] M = "Vec" -> IF x % 2 = 0 THEN <<x * 2>> ELSE <<>>
            [] M = "ArrayVec" -> IF x % 2 = 0 THEN <<Some(x * 2)>> ELSE <<None>>
            [] M = "Id" -> Id(x * 2))

\* |x| f(x).bind(g)
BindThen(M, f, g) == [fn |-> "BindThen", M |-> M, f |-> f, g |-> g]

RECURSIVE bind(_, _, _)
RECURSIVE F1_call(_, _)

\* F1::call and F1Once::call1
F1_call(f, x) ==
  CASE f.fn = "id" -> x
    [] f.fn = "Kleisli" -> Kleisli_call(f.M, f.k, x)
    [] f.fn = "Some" -> Some(x)
    [] f.fn = "succ" -> x + 1
    [] f.fn = "in" -> x \in f.set
    [] f.fn = "filter" -> IF F1_call(f.p, x) THEN Some(x) ELSE None
    [] f.fn = "lookup" -> IF x \in f.set THEN Some(x * 10) ELSE None
    [] f.fn = "BindThen" -> bind(f.M, F1_call(f.f, x), f.g).val
    [] f.fn = "f" -> IF x \in f.fail
                       THEN (IF f.Ap = "Result" THEN Err(x) ELSE None)
                       ELSE (IF f.Ap = "Result" THEN Ok(x * 10) ELSE Some(x * 10))
    [] f.fn = "g" -> IF x \in f.fail THEN <<>> ELSE <<x * 10, x * 20>>
    [] f.fn = "Curry2" -> Curry2_call(f, x).val
    [] f.fn = "Curry3" -> Curry3_call(f, x).val

\* ------------------------------------------------------ Result and Option
\* self.map(f): the value and the invocations of f
Result_fmap1(self, f) ==
  IF self.tag = "Ok"
    THEN Returned(Ok(F1_call(f, self.v)), <<Inv(f, <<self.v>>)>>)
    ELSE Returned(self, <<>>)

\* match self { Ok(f) => a.map(f), Err(e) => Err(e) }
Result_apply1MutDropErr(self, a) ==
  IF self.tag = "Ok" THEN Result_fmap1(a, self.v) ELSE Returned(a, <<>>)
Result_apply1(self, a) ==
  IF self.tag = "Ok" THEN Result_fmap1(a, self.v) ELSE Returned(Err(self.e), <<>>)

Option_fmap1(self, f) ==
  IF self.tag = "Some"
    THEN Returned(Some(F1_call(f, self.v)), <<Inv(f, <<self.v>>)>>)
    ELSE Returned(self, <<>>)

\* match self { Some(f) => a.map(f), None => None }
Option_apply1(self, a) ==
  IF self.tag = "Some" THEN Option_fmap1(a, self.v) ELSE Returned(None, <<>>)

\* ---------------------------------------------------------------- Vec as Ap
Vec_fmap(self, f) == [i \in 1..Len(self) |-> F1_call(f, self[i])]

\* every function of self, in order, applied to every element of a, in order
Vec_apply_with(self, a) ==
  LET row(f) == [j \in 1..Len(a) |-> F1_call(f, a[j])]
      go[i \in 0..Len(self)] == IF i = 0 THEN <<>> ELSE go[i - 1] \o row(self[i])
  IN  go[Len(self)]

\* The applicative Ap::T of a traversal, by its marker
Ap_fmap(Ap, x, f) ==
  CASE Ap = "Result" -> Result_fmap1(x, f).val
    [] Ap = "Option" -> Option_fmap1(x, f).val
    [] Ap = "Vec" -> Vec_fmap(x, f)

Ap_apply1(Ap, x, a) ==
  CASE Ap = "Result" -> Result_apply1(x, a).val
    [] Ap = "Option" -> Option_apply1(x, a).val

Ap_apply(Ap, x, a) ==
  CASE Ap = "Vec" -> Vec_apply_with(x, a)

\* -------------------------------------------------------------------- bind
\* self.and_then(f)
Option_bind1MutCallOnNone(self, f) ==
  IF self.tag = "Some"
    THEN Returned(F1_call(f, self.v), <<Inv(f, <<self.v>>)>>)
    ELSE Returned(F1_call(f, 0), <<Inv(f, <<0>>)>>)
Option_bind1(self, f) ==
  IF self.tag = "Some"
    THEN Returned(F1_call(f, self.v), <<Inv(f, <<self.v>>)>>)
    ELSE Returned(None, <<>>)

Result_bind1(self, f) ==
  IF self.tag = "Ok"
    THEN Returned(F1_call(f, self.v), <<Inv(f, <<self.v>>)>>)
    ELSE Returned(Err(self.e), <<>>)

\* f.call1(self.0)
Id_bind1(self, f) == Returned(F1_call(f, self.v), <<Inv(f, <<self.v>>)>>)

\* for i in self { Vec::append(&mut out, &mut f.call(i)) }
Vec_bind(self, f) ==
  LET go[i \in 0..Len(self)] ==
        IF i = 0 THEN Returned(<<>>, <<>>)
        ELSE Returned(go[i - 1].val \o F1_call(f, self[i]),
                      Append(go[i - 1].inv, Inv(f, <<self[i]>>)))
  IN  go[Len(self)]

\* N of ArrayVec<[Option<A>; N]>
Capacity == MaxLen

\* An unwinding panic, in the shape of the vector it replaces
Panic == <<[tag |-> "Panic"]>>
IsPanic(v) == Len(v) > 0 /\ v[1].tag = "Panic"

\* tinyvec's ArrayVec::append(&mut self, &mut other): panics when the total
\* length exceeds the capacity
tinyvec_append(self, other) ==
  IF Len(self) + Len(other) > Capacity THEN Panic ELSE self \o other

\* for i in self { if let Some(i) = i { ArrayVec::append(&mut out, &mut f.call(i)) } }
ArrayVec_bind(self, f) ==
  LET go[i \in 0..Len(self)] ==
        IF i = 0 THEN Returned(<<>>, <<>>)
        ELSE IF IsPanic(go[i - 1].val) THEN go[i - 1]
        ELSE IF self[i].tag = "None" THEN go[i - 1]
        ELSE LET r == F1_call(f, self[i].v)
                 inv == Append(go[i - 1].inv, Inv(f, <<self[i].v>>))
             IN  IF IsPanic(r) THEN Returned(Panic, inv)
                 ELSE Returned(tinyvec_append(go[i - 1].val, r), inv)
  IN  go[Len(self)]

\* Monad::bind of the container with marker M; for Option, Result and Id it
\* is bind1
bind(M, self, f) ==
  CASE M = "Option" -> Option_bind1(self, f)
    [] M = "Result" -> Result_bind1(self, f)
    [] M = "Id" -> Id_bind1(self, f)
    [] M = "Vec" -> Vec_bind(self, f)
    [] M = "ArrayVec" -> ArrayVec_bind(self, f)

\* ApplyOnce::apply1, which Apply::apply_with of Option and Result calls
apply1(M, self, a) ==
  CASE M = "Option" -> Option_apply1(self, a)
    [] M = "Result" -> Result_apply1(self, a)

\* ------------------------------------------------- folds and their closures
\* The closures handed to foldl and foldl_idx. Each of the traversal
\* closures calls the traversal function on the element it is given before
\* anything else; "visit" records the elements a closure is given.
\* A step function given by the caller is the symbolic callable "step"; the
\* closure of a foldr derived from fold1 passes its arguments on, flipped.
RECURSIVE Foldr_call(_, _, _)
RECURSIVE Fold_call(_, _, _, _)
RECURSIVE get_or(_, _)

\* The closure of find_map, |found, a| found.fmap(Some).get_or(f.call(a)):
\* the argument f.call(a) is evaluated before get_or is called. The
\* accumulator carries the invocations of f made so far.
FindMap_call(f, found, a) ==
  LET r == F1_call(f, a)
  IN  Returned(get_or(Option_fmap1(found.val, [fn |-> "Some"]).val, r),
               Append(found.inv, Inv(f, <<a>>)))

Fold_call(step, b, k, a) ==
  CASE step.fn = "visit" -> Append(b, a)
    [] step.fn = "second" -> a
    [] step.fn = "count" -> b + 1
    [] step.fn = "find_map" -> FindMap_call(step.f, b, a)
    [] step.fn = "F2" -> F2_call(step.f, b, a)
    [] step.fn = "flip" -> Foldr_call(step.f, a, b)
    [] step.fn = "Vec::traversem1" ->
         Ap_apply1(step.Ap,
                   Ap_fmap(step.Ap, F1_call(step.f, a), Curry2_curry("Vec::append")),
                   b)
    [] step.fn = "Vec::traversemm" ->
         Ap_apply(step.Ap,
                  Ap_fmap(step.Ap, F1_call(step.f, a), Curry2_curry("Vec::append")),
                  b)
    [] step.fn = "ArrayVec::traversem1" ->
         Ap_apply1(step.Ap,
                   Ap_fmap(step.Ap, F1_call(step.f, a), Curry2_curry("ArrayVec::append")),
                   b)
    [] step.fn = "BTreeMap::traversem1" ->
         LET insert == F1_call(Curry3_curry("BTreeMap::insert"), k)
         IN  Ap_apply1(step.Ap, Ap_fmap(step.Ap, F1_call(step.f, a), insert), b)

\* The step functions handed to foldr and foldr_idx: F2<A, B>
Foldr_call(step, a, b) ==
  CASE step.fn = "visit" -> Append(b, a)
    [] step.fn = "F2" -> F2_call(step.f, a, b)

Vec_foldl_idxMutRev(self, f, b) ==
  LET go[i \in 0..Len(self)] ==
        IF i = 0 THEN b
        ELSE Fold_call(f, go[i - 1], Len(self) - i, self[Len(self) + 1 - i])
  IN  go[Len(self)]
Vec_foldl_idx(self, f, b) ==
  LET go[i \in 0..Len(self)] ==
        IF i = 0 THEN b ELSE Fold_call(f, go[i - 1], i - 1, self[i])
  IN  go[Len(self)]

\* Foldable for Vec is derived from FoldableIndexed
Vec_foldl(self, f, b) == Vec_foldl_idx(self, f, b)

\* the slots that hold no element are skipped
ArrayVec_foldl(self, f, b) ==
  LET go[i \in 0..Len(self)] ==
        IF i = 0 THEN b
        ELSE IF self[i].tag = "Some" THEN Fold_call(f, go[i - 1], i - 1, self[i].v)
        ELSE go[i - 1]
  IN  go[Len(self)]

\* the keys of a set, ascending
RECURSIVE Ascending(_)
Ascending(K) ==
  IF K = {} THEN <<>>
  ELSE LET k == CHOOSE x \in K : \A y \in K : x <= y
       IN  <<k>> \o Ascending(K \ {k})

BTreeMap_foldl_idx(self, f, b) ==
  LET ks == Ascending(DOMAIN self)
      go[i \in 0..Len(ks)] ==
        IF i = 0 THEN b ELSE Fold_call(f, go[i - 1], ks[i], self[ks[i]])
  IN  go[Len(ks)]

\* rfold: the last element first
Vec_foldr_idx(self, f, b) ==
  LET n == Len(self)
      go[i \in 0..n] ==
        IF i = 0 THEN b ELSE Foldr_call(f, self[n + 1 - i], go[i - 1])
  IN  go[n]

\* Foldable for Vec is derived from FoldableIndexed
Vec_foldr(self, f, b) == Vec_foldr_idx(self, f, b)

\* the slots that hold an element, last first
ArrayVec_foldr(self, f, b) ==
  LET n == Len(self)
      go[i \in 0..n] ==
        IF i = 0 THEN b
        ELSE IF self[n + 1 - i].tag = "Some"
               THEN Foldr_call(f, self[n + 1 - i].v, go[i - 1])
        ELSE go[i - 1]
  IN  go[n]

BTreeMap_foldl(self, f, b) ==
  LET ks == Ascending(DOMAIN self)
      go[i \in 0..Len(ks)] ==
        IF i = 0 THEN b ELSE Fold_call(f, go[i - 1], ks[i], self[ks[i]])
  IN  go[Len(ks)]

\* into_iter().fold: the entries in ascending key order
BTreeMap_foldr(self, f, b) ==
  LET ks == Ascending(DOMAIN self)
      go[i \in 0..Len(ks)] ==
        IF i = 0 THEN b ELSE Foldr_call(f, self[ks[i]], go[i - 1])
  IN  go[Len(ks)]

Option_fold1(self, f, b) ==
  IF self.tag = "Some" THEN Fold_call(f, b, 0, self.v) ELSE b

\* self.ok()
Result_ok(self) == IF self.tag = "Ok" THEN Some(self.v) ELSE None

Result_fold1(self, f, b) == Option_fold1(Result_ok(self), f, b)

\* FoldableOnce::get_or on an Option: self.fold1(|_, a| a, a)
get_orMutDefault(self, a) == a
get_or(self, a) == Option_fold1(self, [fn |-> "second"], a)

\* Foldable derived from FoldableOnce
FoldableOnce_foldl(F, self, f, b) ==
  CASE F = "Option" -> Option_fold1(self, f, b)
    [] F = "Result" -> Result_fold1(self, f, b)

FoldableOnce_foldr(F, self, f, b) ==
  CASE F = "Option" -> Option_fold1(self, [fn |-> "flip", f |-> f], b)
    [] F = "Result" -> Result_fold1(self, [fn |-> "flip", f |-> f], b)

\* Foldable::foldl and Foldable::foldr, by the container's marker
foldl(F, self, f, b) ==
  CASE F = "Vec" -> Vec_foldl(self, f, b)
    [] F = "ArrayVec" -> ArrayVec_foldl(self, f, b)
    [] F = "BTreeMap" -> BTreeMap_foldl(self, f, b)
    [] F \in {"Option", "Result"} -> FoldableOnce_foldl(F, self, f, b)

foldr(F, self, f, b) ==
  CASE F = "Vec" -> Vec_foldr(self, f, b)
    [] F = "ArrayVec" -> ArrayVec_foldr(self, f, b)
    [] F = "BTreeMap" -> BTreeMap_foldr(self, f, b)
    [] F \in {"Option", "Result"} -> FoldableOnce_foldr(F, self, f, b)

\* Foldable::find_map: the value found and the invocations of f
find_map(F, self, f) ==
  foldl(F, self, [fn |-> "find_map", f |-> f], Returned(None, <<>>))

\* Foldable::find: self.find_map(|a| Some(a).filter(|a| f.call(a)))
find(F, self, p) == find_map(F, self, [fn |-> "filter", p |-> p])

\* ------------------------------------------------------------- traversals
Vec_traversem1(self, f, Ap) ==
  Vec_foldl(self, [fn |-> "Vec::traversem1", f |-> f, Ap |-> Ap], Ap_pure(Ap, <<>>))

Vec_traversemm(self, f, Ap) ==
  Vec_foldl(self, [fn |-> "Vec::traversemm", f |-> f, Ap |-> Ap], Ap_pure(Ap, <<>>))

ArrayVec_traversem1(self, f, Ap) ==
  ArrayVec_foldl(self, [fn |-> "ArrayVec::traversem1", f |-> f, Ap |-> Ap],
                 Ap_pure(Ap, <<>>))

BTreeMap_traversem1(self, f, Ap) ==
  BTreeMap_foldl_idx(self, [fn |-> "BTreeMap::traversem1", f |-> f, Ap |-> Ap],
                     Ap_pure(Ap, <<>>))

\* Traversable::traversem1, by the container's marker
traversem1(F, self, f, Ap) ==
  CASE F = "Vec" -> Vec_traversem1(self, f, Ap)
    [] F = "ArrayVec" -> ArrayVec_traversem1(self, f, Ap)
    [] F = "BTreeMap" -> BTreeMap_traversem1(self, f, Ap)

sequence(F, self, Ap) == traversem1(F, self, IdFn, Ap)

ArrayVec_fmap(self, f) ==
  [i \in 1..Len(self) |->
     IF self[i].tag = "Some" THEN Some(F1_call(f, self[i].v)) ELSE None]

BTreeMap_fmap(self, f) == [k \in DOMAIN self |-> F1_call(f, self[k])]

\* Id(f.call1(self.0))
Id_fmap1(self, f) == Id(F1_call(f, self.v))

\* Functor::fmap of the container with marker F; for Option, Result and Id
\* it is fmap1
fmap(F, self, f) ==
  CASE F = "Vec" -> Vec_fmap(self, f)
    [] F = "ArrayVec" -> ArrayVec_fmap(self, f)
    [] F = "BTreeMap" -> BTreeMap_fmap(self, f)
    [] F = "Option" -> Option_fmap1(self, f).val
    [] F = "Result" -> Result_fmap1(self, f).val
    [] F = "Id" -> Id_fmap1(self, f)

\* The elements the closure of a fold over the container is given, in order
Visited(F, self) ==
  CASE F = "Vec" -> Vec_foldl(self, [fn |-> "visit"], <<>>)
    [] F = "ArrayVec" -> ArrayVec_foldl(self, [fn |-> "visit"], <<>>)
    [] F = "BTreeMap" -> BTreeMap_foldl_idx(self, [fn |-> "visit"], <<>>)

\* ------------------------------------------------------------------ inputs
Elems == 1..MaxElem
Keys == 1..MaxLen
Vecs == UNION {[1..n -> Elems] : n \in 0..MaxLen}
ArrayVecs == UNION {[1..n -> {None} \cup {Some(a) : a \in Elems}] : n \in 0..MaxLen}
BTreeMaps == UNION {[K -> Elems] : K \in SUBSET Keys}
Options == {None} \cup {Some(a) : a \in Elems}
Results == {Ok(a) : a \in Elems} \cup {Err(e) : e \in Elems}
Ids == {Id(a) : a \in Elems}
Strings == UNION {[1..n -> {"a", "b"}] : n \in 0..MaxLen}
Containers(F) ==
  CASE F = "Vec" -> Vecs
    [] F = "ArrayVec" -> ArrayVecs
    [] F = "BTreeMap" -> BTreeMaps
    [] F = "Option" -> Options
    [] F = "Result" -> Results
    [] F = "Id" -> Ids
    [] F = "HashMap" -> BTreeMaps
    [] F = "String" -> Strings
    [] F = "Option<String>" -> {None} \cup {Some(s) : s \in Strings}
    [] F = "Id<String>" -> {Id(s) : s \in Strings}

\* the seed and the step function of a fold
Seed == [fn |-> "seed"]
Step == [fn |-> "F2", f |-> "step"]

NoOut == [tag |-> "NoOut"]
NoArg == [tag |-> "NoArg"]

\* ------------------------------------------------------------ alt on maps
\* into_iter: a BTreeMap yields its entries in ascending key order, a
\* HashMap in an order of its own (ascending or descending here)
BTreeMap_into_iter(m) ==
  LET ks == Ascending(DOMAIN m) IN [i \in DOMAIN ks |-> <<ks[i], m[ks[i]]>>]

HashMap_into_iter(m, ord) ==
  LET ks == Ascending(DOMAIN m)
      n == Len(ks)
  IN  [i \in DOMAIN ks |->
         IF ord = "asc" THEN <<ks[i], m[ks[i]]>>
         ELSE <<ks[n + 1 - i], m[ks[n + 1 - i]]>>]

\* collect into a map: a later entry replaces an earlier one with its key
Map_collect(es) ==
  LET go[i \in 0..Len(es)] ==
        IF i = 0 THEN <<>> ELSE BTreeMap_insert(es[i][1], es[i][2], go[i - 1])
  IN  go[Len(es)]

BTreeMap_altMutSelfFirst(self, b) ==
  Map_collect(BTreeMap_into_iter(self) \o BTreeMap_into_iter(b))
BTreeMap_alt(self, b) ==
  Map_collect(BTreeMap_into_iter(b) \o BTreeMap_into_iter(self))

HashMap_alt(self, b, ord) ==
  Map_collect(HashMap_into_iter(b, ord[2]) \o HashMap_into_iter(self, ord[1]))

\* self.into_iter().map(|(k, a)| (k, f.call(a))).collect()
HashMap_fmapMutShiftKeys(self, f, ord) ==
  LET es == HashMap_into_iter(self, ord)
  IN  Map_collect([i \in DOMAIN es |-> <<i, F1_call(f, es[i][2])>>])
HashMap_fmap(self, f, ord) ==
  LET es == HashMap_into_iter(self, ord)
  IN  Map_collect([i \in DOMAIN es |-> <<es[i][1], F1_call(f, es[i][2])>>])

\* self.into_iter().filter_map(|(k, f)| as_.get(&k).map(|a| f.call(clone(a)))
\*                                        .map(|b| (k, b))).collect()
\* over the entries es of self: the map and the invocations made
Map_apply_withMutAllKeys(es, as_) ==
  LET go[i \in 0..Len(es)] ==
        IF i = 0 THEN Returned(<<>>, <<>>)
        ELSE LET k == es[i][1]
                 f == es[i][2]
                 a == IF k \in DOMAIN as_ THEN as_[k] ELSE 0
             IN  Returned(BTreeMap_insert(k, F1_call(f, a), go[i - 1].val),
                          Append(go[i - 1].inv, Inv(f, <<a>>)))
  IN  go[Len(es)]
Map_apply_with(es, as_) ==
  LET go[i \in 0..Len(es)] ==
        IF i = 0 THEN Returned(<<>>, <<>>)
        ELSE LET k == es[i][1]
                 f == es[i][2]
             IN  IF k \in DOMAIN as_
                   THEN Returned(BTreeMap_insert(k, F1_call(f, as_[k]), go[i - 1].val),
                                 Append(go[i - 1].inv, Inv(f, <<as_[k]>>)))
                   ELSE go[i - 1]
  IN  go[Len(es)]

BTreeMap_apply_with(self, as_) == Map_apply_with(BTreeMap_into_iter(self), as_)
HashMap_apply_with(self, as_, ord) == Map_apply_with(HashMap_into_iter(self, ord), as_)

\* the maps of functions
FnMaps ==
  UNION {[K -> {[fn |-> "Some"], Kleisli("Option", "grow")}] : K \in SUBSET Keys}

\* Semigroup::append
BTreeMap_append(self, b) == BTreeMap_alt(self, b)
HashMap_append(self, b, ord) == HashMap_alt(self, b, ord)

\* the maps with values lo + 1 .. lo + MaxArg
Maps(lo) == UNION {[K -> (lo + 1)..(lo + MaxArg)] : K \in SUBSET Keys}
Orders == {"asc", "desc"} \X {"asc", "desc"}

\* ----------------------------------------------------------------- actions
\* No callable has been curried, composed or called
NoNode == [fn |-> "none"]
NoRet == [fn |-> "none"]
IdleFun ==
  /\ orig = "none"
  /\ node = NoNode
  /\ called = NoNode
  /\ given = <<>>
  /\ got = NoRet
  /\ supplied = <<>>
  /\ last = <<>>
  /\ cop = "init"
  /\ ncalls = 0

Held == Size(io["x"]) + Size(io["y"])

\* A value passed by value is moved out of its variable, unless the caller
\* passes a copy of it, which only a Clone/Copy node allows.
Taken(s, keep) == IF keep THEN io[s] ELSE Empty

Init ==
  /\ io = [s \in Slots |-> Empty]
  /\ runs = [s \in Slots |-> 0]
  /\ op = "init"
  /\ execd = Empty
  /\ log = <<>>
  /\ result = NoVal
  /\ ran = FALSE
  /\ invoked = FALSE
  /\ ty = "Vec"
  /\ src = <<>>
  /\ ap = "Result"
  /\ fail = {}
  /\ arg = NoArg
  /\ phase = "ready"
  /\ out = NoOut
  /\ calls = <<>>
  /\ IdleFun

\* The bookkeeping of an operation that builds the node b.node into d.
Store(d, b, name) ==
  /\ runs' = [t \in Slots |-> IF t = d \/ io'[t] = Empty THEN 0 ELSE runs[t]]
  /\ op' = name
  /\ execd' = Empty
  /\ log' = b.ev
  /\ result' = NoVal
  /\ invoked' = (invoked \/ b.ev # <<>>)
  /\ UNCHANGED ran
  /\ UNCHANGED <<tvars, cvars>>

Pure(d) ==
  /\ io[d] = Empty
  /\ Held < MaxSize
  /\ LET b == pure(Atom)
     IN  /\ io' = [io EXCEPT ![d] = b.node]
         /\ Store(d, b, "pure")

Suspend(d) ==
  /\ io[d] = Empty
  /\ Held < MaxSize
  /\ \E f \in Fns :
       LET b == suspend(f)
       IN  /\ io' = [io EXCEPT ![d] = b.node]
           /\ Store(d, b, "suspend")

\* io[d] = io[s].map_(f), on io[s] itself or on a copy of it
Map(s, d) ==
  /\ io[s] # Empty
  /\ \E f \in Fns, keep \in BOOLEAN :
       /\ keep => IsClone(io[s])
       /\ d # s => io[d] = Empty /\ (keep => Held + Size(io[s]) < MaxSize)
       /\ (d = s \/ ~keep) => Held < MaxSize
       /\ LET b == map_(f, io[s])
          IN  /\ io' = [io EXCEPT ![s] = Taken(s, keep), ![d] = b.node]
              /\ Store(d, b, "map_")

\* io[d] = io[s].bind_(f), or Bind::new(f, io[s])
Bind(s, d) ==
  /\ io[s] # Empty
  /\ \E f \in Fns, ret \in Rets, keep \in BOOLEAN :
       /\ keep => IsClone(io[s])
       /\ d # s => io[d] = Empty /\ (keep => Held + Size(io[s]) < MaxSize)
       /\ (d = s \/ ~keep) => Held < MaxSize
       /\ LET b == bind_(f, ret, io[s])
          IN  /\ io' = [io EXCEPT ![s] = Taken(s, keep), ![d] = b.node]
              /\ Store(d, b, "bind_")

\* io[sf] = io[sf].apply_(io[sa]); both operands are moved into the node
\* (io[sf].apply_(io[sf]) passes a copy of the node as the argument)
Apply(sf, sa) ==
  /\ io[sf] # Empty
  /\ io[sa] # Empty
  /\ sf = sa => IsClone(io[sf])
  /\ Held + (IF sf = sa THEN Size(io[sf]) ELSE 0) < MaxSize
  /\ LET b == apply_(io[sf], io[sa])
     IN  /\ io' = [io EXCEPT ![sa] = Empty, ![sf] = b.node]
         /\ Store(sf, b, "apply_")

Drop(s) ==
  /\ io[s] # Empty
  /\ io' = [io EXCEPT ![s] = Empty]
  /\ runs' = [runs EXCEPT ![s] = 0]
  /\ op' = "drop"
  /\ execd' = Empty
  /\ log' = <<>>
  /\ result' = NoVal
  /\ UNCHANGED <<ran, invoked>>
  /\ UNCHANGED <<tvars, cvars>>

\* io[s].exec(): exec takes self by value
Exec(s) ==
  /\ io[s] # Empty
  /\ runs[s] < MaxExec
  /\ LET r == exec(io[s], <<>>)
     IN  /\ io' = [io EXCEPT ![s] = Taken(s, IsClone(io[s]))]
         /\ runs' = [runs EXCEPT ![s] = IF IsClone(io[s]) THEN @ + 1 ELSE 0]
         /\ op' = "exec"
         /\ execd' = io[s]
         /\ log' = r.ev
         /\ result' = r.val
         /\ ran' = TRUE
         /\ invoked' = (invoked \/ r.ev # <<>>)
         /\ UNCHANGED <<tvars, cvars>>

Next ==
  \/ \E d \in Slots : Pure(d)
  \/ \E d \in Slots : Suspend(d)
  \/ \E s, d \in Slots : Map(s, d)
  \/ \E s, d \in Slots : Bind(s, d)
  \/ \E sf, sa \in Slots : Apply(sf, sa)
  \/ \E s \in Slots : Drop(s)
  \/ \E s \in Slots : Exec(s)

Spec == Init /\ [][Next]_vars

\* The engine when one of the callables, the first or the last, panics on
\* being invoked
InitPanic ==
  /\ io = [s \in Slots |-> Empty]
  /\ runs = [s \in Slots |-> 0]
  /\ op = "init"
  /\ execd = Empty
  /\ log = <<>>
  /\ result = NoVal
  /\ ran = FALSE
  /\ invoked = FALSE
  /\ ty = "Vec"
  /\ src = <<>>
  /\ ap = "Result"
  /\ fail \in {{1}, {MaxFn}}
  /\ arg = NoArg
  /\ phase = "ready"
  /\ out = NoOut
  /\ calls = <<>>
  /\ IdleFun

SpecPanic == InitPanic /\ [][Next]_vars

\* ------------------------------------------------------ traversal actions
\* A container, a target and a traversal function; nothing applied yet.
InitTraverse ==
  /\ io = [s \in Slots |-> Empty]
  /\ runs = [s \in Slots |-> 0]
  /\ op = "init"
  /\ execd = Empty
  /\ log = <<>>
  /\ result = NoVal
  /\ ran = FALSE
  /\ invoked = FALSE
  /\ ty \in {"Vec", "ArrayVec", "BTreeMap"}
  /\ src \in Containers(ty)
  /\ ap \in {"Result", "Option"}
  /\ fail \in SUBSET Elems
  /\ arg = NoArg
  /\ phase = "ready"
  /\ out = NoOut
  /\ calls = <<>>
  /\ IdleFun

\* src.traversem1::<ap, _>(f)
Traversem1 ==
  /\ phase = "ready"
  /\ phase' = "traversem1"
  /\ out' = traversem1(ty, src, TraverseFn(ap, fail), ap)
  /\ calls' = Visited(ty, src)
  /\ UNCHANGED <<ty, src, arg, ap, fail>>
  /\ UNCHANGED <<iovars, cvars>>

\* src.fmap(f).sequence::<ap>()
Sequence ==
  /\ phase = "ready"
  /\ phase' = "sequence"
  /\ out' = sequence(ty, fmap(ty, src, TraverseFn(ap, fail)), ap)
  /\ calls' = Visited(ty, fmap(ty, src, TraverseFn(ap, fail)))
  /\ UNCHANGED <<ty, src, arg, ap, fail>>
  /\ UNCHANGED <<iovars, cvars>>

\* src.traversemm::<hkt::Vec, _>(g), on a Vec
Traversemm ==
  /\ phase = "ready"
  /\ ty = "Vec"
  /\ phase' = "traversemm"
  /\ out' = Vec_traversemm(src, OutcomesFn(fail), "Vec")
  /\ calls' = Visited(ty, src)
  /\ UNCHANGED <<ty, src, arg, ap, fail>>
  /\ UNCHANGED <<iovars, cvars>>

NextTraverse == Traversem1 \/ Sequence \/ Traversemm

SpecTraverse == InitTraverse /\ [][NextTraverse]_vars

\* ------------------------------------------------------------ fold actions
InitFold ==
  /\ io = [s \in Slots |-> Empty]
  /\ runs = [s \in Slots |-> 0]
  /\ op = "init"
  /\ execd = Empty
  /\ log = <<>>
  /\ result = NoVal
  /\ ran = FALSE
  /\ invoked = FALSE
  /\ ty \in {"Vec", "ArrayVec", "BTreeMap", "Option", "Result"}
  /\ src \in Containers(ty)
  /\ ap = "Result"
  /\ fail = {}
  /\ arg = NoArg
  /\ phase = "ready"
  /\ out = NoOut
  /\ calls = <<>>
  /\ IdleFun

\* src.foldl(step, seed)
Foldl ==
  /\ phase = "ready"
  /\ phase' = "foldl"
  /\ out' = foldl(ty, src, Step, Seed)
  /\ calls' = foldl(ty, src, [fn |-> "visit"], <<>>)
  /\ UNCHANGED <<ty, src, arg, ap, fail>>
  /\ UNCHANGED <<iovars, cvars>>

\* src.foldr(step, seed)
Foldr ==
  /\ phase = "ready"
  /\ phase' = "foldr"
  /\ out' = foldr(ty, src, Step, Seed)
  /\ calls' = foldr(ty, src, [fn |-> "visit"], <<>>)
  /\ UNCHANGED <<ty, src, arg, ap, fail>>
  /\ UNCHANGED <<iovars, cvars>>

\* src.find(p), p holding on the elements of S
Find ==
  /\ phase = "ready"
  /\ phase' = "find"
  /\ \E S \in SUBSET Elems :
       LET r == find(ty, src, [fn |-> "in", set |-> S])
       IN  arg' = S /\ out' = r.val /\ calls' = r.inv
  /\ UNCHANGED <<ty, src, ap, fail>>
  /\ UNCHANGED <<iovars, cvars>>

\* src.find_map(f), f yielding Some(a * 10) for the elements of S
FindMap ==
  /\ phase = "ready"
  /\ phase' = "find_map"
  /\ \E S \in SUBSET Elems :
       LET r == find_map(ty, src, [fn |-> "lookup", set |-> S])
       IN  arg' = S /\ out' = r.val /\ calls' = r.inv
  /\ UNCHANGED <<ty, src, ap, fail>>
  /\ UNCHANGED <<iovars, cvars>>

NextFold == Foldl \/ Foldr \/ Find \/ FindMap

SpecFold == InitFold /\ [][NextFold]_vars

\* ------------------------------------------------------------- alt actions
\* Two maps; the values of the second are not values of the first
InitAlt ==
  /\ io = [s \in Slots |-> Empty]
  /\ runs = [s \in Slots |-> 0]
  /\ op = "init"
  /\ execd = Empty
  /\ log = <<>>
  /\ result = NoVal
  /\ ran = FALSE
  /\ invoked = FALSE
  /\ ty \in {"BTreeMap", "HashMap"}
  /\ src \in Maps(0)
  /\ arg \in Maps(MaxArg)
  /\ ap = "Result"
  /\ fail = {}
  /\ phase = "ready"
  /\ out = NoOut
  /\ calls = <<>>
  /\ IdleFun

\* src.alt(arg)
Alt ==
  /\ phase = "ready"
  /\ phase' = "alt"
  /\ \/ ty = "BTreeMap" /\ out' = BTreeMap_alt(src, arg)
     \/ ty = "HashMap" /\ \E ord \in Orders : out' = HashMap_alt(src, arg, ord)
  /\ UNCHANGED <<ty, src, arg, ap, fail, calls>>
  /\ UNCHANGED <<iovars, cvars>>

\* src.append(arg)
SemigroupAppend ==
  /\ phase = "ready"
  /\ phase' = "append"
  /\ \/ ty = "BTreeMap" /\ out' = BTreeMap_append(src, arg)
     \/ ty = "HashMap" /\ \E ord \in Orders : out' = HashMap_append(src, arg, ord)
  /\ UNCHANGED <<ty, src, arg, ap, fail, calls>>
  /\ UNCHANGED <<iovars, cvars>>

NextAlt == Alt \/ SemigroupAppend

SpecAlt == InitAlt /\ [][NextAlt]_vars

\* ------------------------------------------------------------ monad actions
Monads == {"Option", "Result", "Vec", "ArrayVec", "Id"}

\* The containers of functions that apply1 is called on
FnContainers(M) ==
  LET fns == {IdFn, Kleisli(M, "grow")}
  IN  CASE M = "Option" -> {None} \cup {Some(f) : f \in fns}
        [] M = "Result" -> {Ok(f) : f \in fns} \cup {Err(e) : e \in Elems}
        [] OTHER -> {NoArg}

\* A monadic value src, two functions to bind and a container of functions
InitMonad ==
  /\ io = [s \in Slots |-> Empty]
  /\ runs = [s \in Slots |-> 0]
  /\ op = "init"
  /\ execd = Empty
  /\ log = <<>>
  /\ result = NoVal
  /\ ran = FALSE
  /\ invoked = FALSE
  /\ ty \in Monads
  /\ src \in Containers(ty)
  /\ arg \in [f : {Kleisli(ty, k) : k \in Kleislis},
              g : {Kleisli(ty, k) : k \in Kleislis},
              fs : FnContainers(ty)]
  /\ ap = "Result"
  /\ fail = {}
  /\ phase = "ready"
  /\ out = NoOut
  /\ calls = <<>>
  /\ IdleFun

\* src.bind(arg.f)
MonadBind ==
  /\ phase = "ready"
  /\ phase' = "bind"
  /\ LET r == bind(ty, src, arg.f)
     IN  out' = r.val /\ calls' = r.inv
  /\ UNCHANGED <<ty, src, arg, ap, fail>>
  /\ UNCHANGED <<iovars, cvars>>

\* src.bind(pure)
MonadBindPure ==
  /\ phase = "ready"
  /\ phase' = "bind_pure"
  /\ LET r == bind(ty, src, Kleisli(ty, "pure"))
     IN  out' = r.val /\ calls' = r.inv
  /\ UNCHANGED <<ty, src, arg, ap, fail>>
  /\ UNCHANGED <<iovars, cvars>>

\* l: src.bind(f).bind(g), where a panic of the first bind unwinds past the
\* second; r: src.bind(|x| f(x).bind(g))
MonadBindBind ==
  /\ phase = "ready"
  /\ phase' = "bind_bind"
  /\ LET first == bind(ty, src, arg.f).val
         l == IF ty = "ArrayVec" /\ IsPanic(first) THEN Panic
              ELSE bind(ty, first, arg.g).val
         r == bind(ty, src, BindThen(ty, arg.f, arg.g)).val
     IN  out' = [l |-> l, r |-> r]
  /\ UNCHANGED <<ty, src, arg, ap, fail, calls>>
  /\ UNCHANGED <<iovars, cvars>>

\* arg.fs.apply1(src)
MonadApply1 ==
  /\ phase = "ready"
  /\ ty \in {"Option", "Result"}
  /\ phase' = "apply1"
  /\ LET r == apply1(ty, arg.fs, src)
     IN  out' = r.val /\ calls' = r.inv
  /\ UNCHANGED <<ty, src, arg, ap, fail>>
  /\ UNCHANGED <<iovars, cvars>>

NextMonad == MonadBind \/ MonadBindPure \/ MonadBindBind \/ MonadApply1

SpecMonad == InitMonad /\ [][NextMonad]_vars

\* ---------------------------------------------------------- alt and empty
\* self.or(b)
Option_alt(self, b) == IF self.tag = "Some" THEN self ELSE b

\* Vec::append(&mut self, &mut b); self
Vec_altMutDropB(self, b) == self
Vec_alt(self, b) == self \o b

\* ArrayVec::append(&mut self, &mut b); self
ArrayVec_alt(self, b) == tinyvec_append(self, b)

\* Alt::alt of the container with marker F, a HashMap iterating in the
\* orders ord
alt(F, self, b, ord) ==
  CASE F = "Option" -> Option_alt(self, b)
    [] F = "Vec" -> Vec_alt(self, b)
    [] F = "ArrayVec" -> ArrayVec_alt(self, b)
    [] F = "BTreeMap" -> BTreeMap_alt(self, b)
    [] F = "HashMap" -> HashMap_alt(self, b, ord)

\* Plus::empty: Default::default()
empty(F) == IF F = "Option" THEN None ELSE <<>>

\* ---------------------------------------------------- append and identity
\* format!("{self}{b}")
String_append(self, b) == self \o b

\* Option<A: Semigroup>, here A = String
Option_appendMutNeedsBoth(self, b) ==
  IF self.tag = "Some" /\ b.tag = "Some" THEN Some(String_append(self.v, b.v))
  ELSE None
Option_append(self, b) ==
  CASE self.tag = "Some" /\ b.tag = "Some" -> Some(String_append(self.v, b.v))
    [] self.tag = "Some" /\ b.tag # "Some" -> Some(self.v)
    [] self.tag # "Some" /\ b.tag = "Some" -> Some(b.v)
    [] OTHER -> None

\* Id<T: Semigroup>, here T = String: Id(self.0.append(b.0))
Id_append(self, b) == Id(String_append(self.v, b.v))

\* Semigroup::append of the type with marker S; for Vec, ArrayVec and the
\* maps it is alt
append(S, self, b, ord) ==
  CASE S = "String" -> String_append(self, b)
    [] S = "Option<String>" -> Option_append(self, b)
    [] S = "Id<String>" -> Id_append(self, b)
    [] S = "Vec" -> Vec_alt(self, b)
    [] S = "ArrayVec" -> ArrayVec_alt(self, b)
    [] S = "BTreeMap" -> BTreeMap_append(self, b)
    [] S = "HashMap" -> HashMap_append(self, b, ord)

\* Monoid::identity
identity(S) ==
  CASE S = "Option<String>" -> None
    [] S = "Id<String>" -> Id(<<>>)
    [] OTHER -> <<>>

\* ------------------------------------------------------ ArrayVec, built up
\* collect::<ArrayVec<_>>(): every item pushed, a push over capacity panics
ArrayVec_collect(items) == IF Len(items) > Capacity THEN Panic ELSE items

\* every function in an occupied slot of self, in order, mapped over the
\* slots of as_; the rows flattened and collected
ArrayVec_apply_with(self, as_) ==
  LET row(f) == ArrayVec_collect([j \in 1..Len(as_) |->
                  IF as_[j].tag = "Some" THEN Some(F1_call(f, as_[j].v)) ELSE None])
      go[i \in 0..Len(self)] ==
        IF i = 0 THEN <<>>
        ELSE IF self[i].tag = "Some" THEN go[i - 1] \o row(self[i].v)
        ELSE go[i - 1]
  IN  ArrayVec_collect(go[Len(self)])

\* Foldable::length: self.foldl_ref(|n, _| n + 1, 0)
ArrayVec_length(self) == ArrayVec_foldl(self, [fn |-> "count"], 0)

\* The functions and the sequences of functions the operations are given:
\* the sequences are built with pure and alt, the functions bound build
\* theirs with pure, alt and empty
AvFns == {IdFn, [fn |-> "succ"]}
AvFnVecs ==
  {ArrayVec_pure(f) : f \in AvFns}
    \cup {ArrayVec_alt(ArrayVec_pure(f), ArrayVec_pure(g)) : f, g \in AvFns}
AvKleislis == {Kleisli("ArrayVec", k) : k \in {"pure", "fail", "grow"}}

\* the sequence r exists (the operation did not panic) and holds elements
\* of Elems only
AvBuilt(r) ==
  /\ ~IsPanic(r)
  /\ \A i \in DOMAIN r : r[i].tag = "Some" => r[i].v \in Elems

InitArrayVec ==
  /\ io = [s \in Slots |-> Empty]
  /\ runs = [s \in Slots |-> 0]
  /\ op = "init"
  /\ execd = Empty
  /\ log = <<>>
  /\ result = NoVal
  /\ ran = FALSE
  /\ invoked = FALSE
  /\ ty = "ArrayVec"
  /\ src = empty("ArrayVec")
  /\ arg = NoArg
  /\ ap = "Result"
  /\ fail = {}
  /\ phase = "empty"
  /\ out = ArrayVec_length(empty("ArrayVec"))
  /\ calls = <<>>
  /\ IdleFun

\* src becomes r, the result of the operation named
AvStep(name, r) ==
  /\ AvBuilt(r)
  /\ src' = r
  /\ phase' = name
  /\ out' = ArrayVec_length(r)
  /\ calls' = ArrayVec_foldl(r, [fn |-> "visit"], <<>>)
  /\ UNCHANGED <<ty, arg, ap, fail>>
  /\ UNCHANGED <<iovars, cvars>>

AvEmpty == AvStep("empty", empty("ArrayVec"))
AvPure == \E a \in Elems : AvStep("pure", ArrayVec_pure(a))
\* src.alt(pure(a)), pure(a).alt(src), src.alt(src); append is alt
AvAlt ==
  \/ \E a \in Elems : AvStep("alt", ArrayVec_alt(src, ArrayVec_pure(a)))
  \/ \E a \in Elems : AvStep("alt", ArrayVec_alt(ArrayVec_pure(a), src))
  \/ AvStep("alt", ArrayVec_alt(src, src))
AvFmap == \E f \in AvFns : AvStep("fmap", ArrayVec_fmap(src, f))
AvApply == \E fs \in AvFnVecs : AvStep("apply", ArrayVec_apply_with(fs, src))
AvBind == \E f \in AvKleislis : AvStep("bind", ArrayVec_bind(src, f).val)

NextArrayVec == AvEmpty \/ AvPure \/ AvAlt \/ AvFmap \/ AvApply \/ AvBind

SpecArrayVec == InitArrayVec /\ [][NextArrayVec]_vars

\* -------------------------------------------------------- container actions
Functors == {"Option", "Result", "Vec", "ArrayVec", "HashMap", "BTreeMap", "Id"}
Pluses == {"Option", "Vec", "ArrayVec", "HashMap", "BTreeMap"}
Monoids ==
  {"String", "Option<String>", "Id<String>", "Vec", "ArrayVec", "HashMap", "BTreeMap"}

\* A container of any adapter
InitContainer ==
  /\ io = [s \in Slots |-> Empty]
  /\ runs = [s \in Slots |-> 0]
  /\ op = "init"
  /\ execd = Empty
  /\ log = <<>>
  /\ result = NoVal
  /\ ran = FALSE
  /\ invoked = FALSE
  /\ ty \in Functors \cup Monoids
  /\ src \in Containers(ty)
  /\ arg = NoArg
  /\ ap = "Result"
  /\ fail = {}
  /\ phase = "ready"
  /\ out = NoOut
  /\ calls = <<>>
  /\ IdleFun

\* src.fmap(|a| a)
Fmap ==
  /\ phase = "ready"
  /\ ty \in Functors
  /\ phase' = "fmap"
  /\ \/ ty # "HashMap" /\ out' = fmap(ty, src, IdFn)
     \/ ty = "HashMap" /\ \E ord \in {"asc", "desc"} : out' = HashMap_fmap(src, IdFn, ord)
  /\ UNCHANGED <<ty, src, arg, ap, fail, calls>>
  /\ UNCHANGED <<iovars, cvars>>

\* l: src.alt(empty()), r: empty().alt(src)
AltEmpty ==
  /\ phase = "ready"
  /\ ty \in Pluses
  /\ phase' = "alt_empty"
  /\ \E ord \in Orders :
       out' = [l |-> alt(ty, src, empty(ty), ord), r |-> alt(ty, empty(ty), src, ord)]
  /\ UNCHANGED <<ty, src, arg, ap, fail, calls>>
  /\ UNCHANGED <<iovars, cvars>>

\* l: src.append(identity()), r: identity().append(src)
AppendIdentity ==
  /\ phase = "ready"
  /\ ty \in Monoids
  /\ phase' = "append_identity"
  /\ \E ord \in Orders :
       out' = [l |-> append(ty, src, identity(ty), ord),
               r |-> append(ty, identity(ty), src, ord)]
  /\ UNCHANGED <<ty, src, arg, ap, fail, calls>>
  /\ UNCHANGED <<iovars, cvars>>

\* fs.apply(src), fs a map of functions
MapApply ==
  /\ phase = "ready"
  /\ ty \in {"BTreeMap", "HashMap"}
  /\ phase' = "apply"
  /\ \E fs \in FnMaps :
       /\ arg' = fs
       /\ \/ ty = "BTreeMap" /\ LET r == BTreeMap_apply_with(fs, src)
                                IN  out' = r.val /\ calls' = r.inv
          \/ ty = "HashMap" /\ \E ord \in {"asc", "desc"} :
                                 LET r == HashMap_apply_with(fs, src, ord)
                                 IN  out' = r.val /\ calls' = r.inv
  /\ UNCHANGED <<ty, src, ap, fail>>
  /\ UNCHANGED <<iovars, cvars>>

NextContainer == Fmap \/ AltEmpty \/ AppendIdentity \/ MapApply

SpecContainer == InitContainer /\ [][NextContainer]_vars

\* ---------------------------------------------------------------- callables
\* The symbolic callables of one, two and three arguments. Those that are Fn
\* and Clone can be called on a reference, the others only by value.
Fn1s == {"f", "g", "h"}
Fn2s == {"f2", "once2"}
Fn3s == {"f3", "once3"}
IsFn(f) == f \in {"f", "g", "h", "f2", "f3"}
Args == {Arg(n) : n \in 1..MaxArg}

\* a callable that is not a chain node, as a value
Callable(f) == [fn |-> "sym", f |-> f]

Compose_compose(f, g) == [fn |-> "Compose", f |-> f, g |-> g]

\* F1Once::chain
chain(self, g) == Compose_compose(self, g)

\* F1Once::call1, by the callable's type
RECURSIVE F1Once_call1(_, _)

Compose_call1(c, a) ==
  LET x == F1Once_call1(c.f, a)
      y == F1Once_call1(c.g, x.val)
  IN  Returned(y.val, x.inv \o y.inv)

F1Once_call1(f, a) ==
  CASE f.fn = "sym" -> Returned(Ret(f.f, <<a>>), <<Inv(f.f, <<a>>)>>)
    [] f.fn = "Compose" -> Compose_call1(f, a)
    [] f.fn = "Curry2" -> Curry2_call1(f, a)
    [] f.fn = "Curry3" -> Curry3_call1(f, a)

\* F1::call on a reference, by the callable's type
RECURSIVE F1_callRef(_, _)

Compose_callMutGFirst(c, a) ==
  LET x == F1_callRef(c.g, a)
      y == F1_callRef(c.f, x.val)
  IN  Kept(y.val, x.inv \o y.inv, [c EXCEPT !.f = y.self, !.g = x.self])
Compose_call(c, a) ==
  LET x == F1_callRef(c.f, a)
      y == F1_callRef(c.g, x.val)
  IN  Kept(y.val, x.inv \o y.inv, [c EXCEPT !.f = x.self, !.g = y.self])

F1_callRef(f, a) ==
  CASE f.fn = "sym" -> Kept(Ret(f.f, <<a>>), <<Inv(f.f, <<a>>)>>, f)
    [] f.fn = "Compose" -> Compose_call(f, a)
    [] f.fn = "Curry2" -> Curry2_call(f, a)
    [] f.fn = "Curry3" -> Curry3_call(f, a)

\* the functions composed into a callable, in the order they were chained
RECURSIVE Composed(_)
Composed(c) ==
  IF c.fn = "Compose" THEN Composed(c.f) \o Composed(c.g) ELSE <<c.f>>

\* F1 is implemented when every callable inside is Fn (and Clone)
ImplsF1(c) ==
  IF c.fn = "Compose" THEN \A i \in DOMAIN Composed(c) : IsFn(Composed(c)[i])
  ELSE IsFn(c.f)

IsChainNode(c) == c.fn \in {"Curry2", "Curry3"}

InitFun ==
  /\ io = [s \in Slots |-> Empty]
  /\ runs = [s \in Slots |-> 0]
  /\ op = "init"
  /\ execd = Empty
  /\ log = <<>>
  /\ result = NoVal
  /\ ran = FALSE
  /\ invoked = FALSE
  /\ ty = "Vec"
  /\ src = <<>>
  /\ ap = "Result"
  /\ fail = {}
  /\ arg = NoArg
  /\ phase = "ready"
  /\ out = NoOut
  /\ calls = <<>>
  /\ IdleFun

\* f.curry()
Curry ==
  /\ node = NoNode
  /\ orig = "none"
  /\ \E f \in Fn2s \cup Fn3s :
       /\ orig' = f
       /\ node' = IF f \in Fn2s THEN Curry2_curry(f) ELSE Curry3_curry(f)
  /\ cop' = "curry"
  /\ last' = <<>>
  /\ UNCHANGED <<called, given, got, supplied, ncalls>>
  /\ UNCHANGED <<iovars, tvars>>

\* a function of one argument, to compose others onto
Pick ==
  /\ node = NoNode
  /\ orig = "none"
  /\ \E f \in Fn1s :
       /\ orig' = f
       /\ node' = Callable(f)
  /\ cop' = "pick"
  /\ last' = <<>>
  /\ UNCHANGED <<called, given, got, supplied, ncalls>>
  /\ UNCHANGED <<iovars, tvars>>

\* node.chain(g), or g.chain(node)
Chain ==
  /\ node.fn \in {"sym", "Compose"}
  /\ Len(Composed(node)) < MaxChain
  /\ \E g \in Fn1s :
       \/ node' = chain(node, Callable(g))
       \/ node' = chain(Callable(g), node)
  /\ cop' = "chain"
  /\ got' = NoRet
  /\ last' = <<>>
  /\ UNCHANGED <<orig, called, given, supplied, ncalls>>
  /\ UNCHANGED <<iovars, tvars>>

\* node.call1(x): the callable is consumed
Call1 ==
  /\ node # NoNode
  /\ ncalls < MaxCalls
  /\ \E x \in Args :
       LET r == F1Once_call1(node, x)
       IN  /\ got' = r.val
           /\ last' = r.inv
           /\ supplied' = Append(given, x)
  /\ node' = NoNode
  /\ called' = node
  /\ cop' = "call1"
  /\ ncalls' = ncalls + 1
  /\ UNCHANGED <<orig, given>>
  /\ UNCHANGED <<iovars, tvars>>

\* node.call(x): the callable is kept
Call ==
  /\ node # NoNode
  /\ ImplsF1(node)
  /\ ncalls < MaxCalls
  /\ \E x \in Args :
       LET r == F1_callRef(node, x)
       IN  /\ got' = r.val
           /\ last' = r.inv
           /\ supplied' = Append(given, x)
           /\ node' = r.self
  /\ called' = node
  /\ cop' = "call"
  /\ ncalls' = ncalls + 1
  /\ UNCHANGED <<orig, given>>
  /\ UNCHANGED <<iovars, tvars>>

\* node = node.clone(), on an arity-2 chain node whose f is Clone
Clone ==
  /\ node.fn = "Curry2"
  /\ IsFn(node.f)
  /\ cop # "clone"
  /\ node' = Curry2_clone(node)
  /\ cop' = "clone"
  /\ last' = <<>>
  /\ UNCHANGED <<orig, called, given, got, supplied, ncalls>>
  /\ UNCHANGED <<iovars, tvars>>

\* go on with the chain node the last call returned
Advance ==
  /\ IsChainNode(got)
  /\ node' = got
  /\ given' = supplied
  /\ got' = NoRet
  /\ last' = <<>>
  /\ cop' = "advance"
  /\ UNCHANGED <<orig, called, supplied, ncalls>>
  /\ UNCHANGED <<iovars, tvars>>

\* node.uncurry()
Uncurry ==
  /\ IsChainNode(node)
  /\ IF node.fn = "Curry2" THEN Curry2_hasUncurry(node) ELSE Curry3_hasUncurry(node)
  /\ got' = Callable(IF node.fn = "Curry2" THEN Curry2_uncurry(node)
                                            ELSE Curry3_uncurry(node))
  /\ node' = NoNode
  /\ last' = <<>>
  /\ cop' = "uncurry"
  /\ UNCHANGED <<orig, called, given, supplied, ncalls>>
  /\ UNCHANGED <<iovars, tvars>>

NextFun == Curry \/ Pick \/ Chain \/ Call1 \/ Call \/ Advance \/ Uncurry \/ Clone

SpecFun == InitFun /\ [][NextFun]_vars

\* ------------------------------------------------- the executed computation
IsPrefix(p, q) == Len(p) <= Len(q) /\ SubSeq(q, 1, Len(p)) = p

\* The paths of the nodes that hold a callable to invoke: a Suspend's thunk,
\* a Map's and a Bind's function, the function an Apply obtains, and the
\* thunk of the node a Bind's function returns.
RECURSIVE Callables(_, _)
Callables(n, p) ==
  CASE n.kind = "pure" -> {}
    [] n.kind = "suspend" -> {p}
    [] n.kind = "map" -> {p} \cup Callables(n.io, p \o <<"io">>)
    [] n.kind = "bind" ->
         {p} \cup Callables(n.io, p \o <<"io">>)
             \cup (IF n.ret.kind = "suspend" THEN {p \o <<"ret">>} ELSE {})
    [] n.kind = "apply" ->
         {p} \cup Callables(n.iof, p \o <<"f">>) \cup Callables(n.ioa, p \o <<"a">>)

\* The nodes of a computation, by path.
RECURSIVE Nodes(_, _)
Nodes(n, p) ==
  CASE n.kind \in {"pure", "suspend"} -> {[at |-> p, node |-> n]}
    [] n.kind \in {"map", "bind"} ->
         {[at |-> p, node |-> n]} \cup Nodes(n.io, p \o <<"io">>)
    [] n.kind = "apply" ->
         {[at |-> p, node |-> n]} \cup Nodes(n.iof, p \o <<"f">>)
                                  \cup Nodes(n.ioa, p \o <<"a">>)

\* The value a computation stands for, whatever the order of evaluation.
RECURSIVE Denote(_)
Denote(n) ==
  CASE n.kind = "pure" -> n.val
    [] n.kind = "suspend" -> <<"call", Fn(n.f), Unit>>
    [] n.kind = "map" -> <<"call", Fn(n.f), Denote(n.io)>>
    [] n.kind = "bind" ->
         IF n.ret.kind = "pure" THEN <<"call", Fn(n.f), Denote(n.io)>>
                                ELSE <<"call", Fn(n.ret.f), Unit>>
    [] n.kind = "apply" -> <<"call", Denote(n.iof), Denote(n.ioa)>>

Invocations(p) == {i \in DOMAIN log : log[i].at = p}
Within(p) == {i \in DOMAIN log : IsPrefix(p, log[i].at)}
Before(I, J) == \A i \in I, j \in J : i < j

\* ------------------------------------------------------------------ claims

\* C1: building a lazy computation never runs it: as long as exec has not
\* been called, no thunk and no stored function has been invoked, whatever
\* was built with pure, suspend, map_, bind_ and apply_.
C1_BuildRunsNothing == ~ran => (~invoked /\ log = <<>>)

C1_Witness ==
  /\ ~ran
  /\ \E s \in Slots : io[s].kind = "apply" /\ io[s].iof.kind = "suspend"

\* C2: one exec invokes every thunk and every map_/bind_/apply_ function of
\* the computation exactly once, the thunk of the node a bind function
\* returned included, and invokes nothing else.
C2_EachExactlyOnce ==
  op = "exec" =>
    /\ \A p \in Callables(execd, <<>>) : Cardinality(Invocations(p)) = 1
    /\ \A i \in DOMAIN log : log[i].at \in Callables(execd, <<>>)

C2_Witness ==
  /\ op = "exec"
  /\ execd.kind = "bind" /\ execd.ret.kind = "suspend"
  /\ execd.io.kind = "map" /\ execd.io.io.kind = "suspend"

\* C3: a map_ or bind_ node executes its predecessor to completion, then
\* applies its own function to the predecessor's result; a bind_ node then
\* executes the node that function returned and yields its result. So the
\* effects of a chain happen in the order the nodes were composed.
C3_ChainOrder ==
  op = "exec" =>
    /\ \A e \in Nodes(execd, <<>>) :
         e.node.kind \in {"map", "bind"} =>
           /\ \E i \in Invocations(e.at) : log[i].fn = Fn(e.node.f)
           /\ Before(Within(e.at \o <<"io">>), Invocations(e.at))
           /\ Before(Invocations(e.at), Within(e.at \o <<"ret">>))
    /\ execd.kind = "map" => result = <<"call", Fn(execd.f), Denote(execd.io)>>
    /\ execd.kind = "bind" => result = Denote(execd)

C3_Witness ==
  /\ op = "exec"
  /\ execd.kind = "bind" /\ execd.ret.kind = "suspend"
  /\ execd.io.kind = "map" /\ execd.io.io.kind = "suspend"
  /\ Len(log) = 4

\* C4: an apply_ node executes the function-producing node to completion,
\* then the argument-producing node, then applies the function it obtained
\* to the argument it obtained, and exec returns what that application
\* returns.
C4_ApplyOrder ==
  op = "exec" =>
    /\ \A e \in Nodes(execd, <<>>) :
         e.node.kind = "apply" =>
           /\ Before(Within(e.at \o <<"f">>), Within(e.at \o <<"a">>))
           /\ Before(Within(e.at \o <<"a">>), Invocations(e.at))
           /\ \E i \in Invocations(e.at) : log[i].fn = Denote(e.node.iof)
    /\ execd.kind = "apply" =>
         result = <<"call", Denote(execd.iof), Denote(execd.ioa)>>

C4_Witness ==
  /\ op = "exec"
  /\ execd.kind = "apply"
  /\ execd.iof.kind = "suspend" /\ execd.ioa.kind = "suspend"
  /\ Len(log) = 3

RECURSIVE Order(_, _)
Order(n, p) ==
  CASE n.kind = "pure" -> <<>>
    [] n.kind = "suspend" -> <<Ev(p, Fn(n.f))>>
    [] n.kind = "map" -> Order(n.io, p \o <<"io">>) \o <<Ev(p, Fn(n.f))>>
    [] n.kind = "bind" ->
         Order(n.io, p \o <<"io">>) \o <<Ev(p, Fn(n.f))>>
           \o (IF n.ret.kind = "suspend"
                 THEN <<Ev(p \o <<"ret">>, Fn(n.ret.f))>> ELSE <<>>)
    [] n.kind = "apply" ->
         Order(n.iof, p \o <<"f">>) \o Order(n.ioa, p \o <<"a">>)
           \o <<Ev(p, Denote(n.iof))>>

\* the invocations of Order(execd) that invoke a panicking callable
Failures == {i \in DOMAIN Order(execd, <<>>) : Panics(Order(execd, <<>>)[i].fn)}

\* C24: an exec in which a callable panics yields no result: the panic
\* reaches the caller. The invocations made are exactly those the
\* computation makes up to and including the first panicking one, each
\* once and in order: nothing after it is invoked and nothing is retried.
\* An exec in which nothing panics runs to completion.
C24_PanicPropagates ==
  op = "exec" =>
    IF Failures = {}
      THEN log = Order(execd, <<>>) /\ result = Denote(execd)
      ELSE /\ result = Panicked
           /\ \E i \in Failures :
                /\ \A j \in Failures : i <= j
                /\ log = SubSeq(Order(execd, <<>>), 1, i)

\* a bind whose predecessor's thunk panics: neither the bind function nor
\* the thunk of the node it would return is invoked
C24_Witness ==
  /\ op = "exec"
  /\ execd.kind = "bind" /\ execd.ret.kind = "suspend"
  /\ execd.io.kind = "suspend" /\ execd.io.f \in fail
  /\ Len(log) = 1
  /\ result = Panicked

\* ------------------------------------------------- traversals: the claims
\* The outcome of each element the traversal visited, in order: what the
\* traversal function returned for it, or the element itself when sequencing.
Outcomes ==
  [i \in DOMAIN calls |->
     IF phase = "traversem1" THEN F1_call(TraverseFn(ap, fail), calls[i])
     ELSE calls[i]]

IsFailure(x) == x.tag \in {"Err", "None"}
Failing == {i \in DOMAIN calls : IsFailure(Outcomes[i])}
FirstFailing == CHOOSE i \in Failing : \A j \in Failing : i <= j
Single == phase \in {"traversem1", "sequence"}

\* C6: traversem1 and sequence over a Vec, ArrayVec or BTreeMap into Result
\* or Option return the failure of the first failing element, in
\* left-to-right order, when several elements fail.
C6_FirstFailureWins ==
  (Single /\ Failing # {}) => out = Outcomes[FirstFailing]

\* C7: traversem1 over a Vec into Result or Option does not invoke the
\* traversal function on any element after the first one it failed on.
C7_NoCallAfterFailure ==
  (phase = "traversem1" /\ ty = "Vec") =>
    \A i \in DOMAIN calls : \A j \in 1..(i - 1) : ~IsFailure(Outcomes[j])

\* C8: when exactly one element is, or maps to, a failure, traversing or
\* sequencing yields exactly that failure, at whatever position it is.
C8_SingleFailure ==
  (Single /\ Cardinality(Failing) = 1) =>
    \A i \in Failing : out = Outcomes[i]

C8_Witness ==
  /\ phase = "traversem1" /\ ty = "Vec" /\ ap = "Result"
  /\ src = <<1, 2, 3>> /\ fail = {2}
  /\ out = Err(2)

\* C9: sequencing a container whose elements are all successes yields the
\* success of a container with the same elements in the same order (the same
\* key-to-value pairs for a map), unwrapped; an empty container yields the
\* success of the empty container.
C9_AllSuccess ==
  (phase = "sequence" /\ Failing = {}) =>
    /\ out.tag = (IF ap = "Result" THEN "Ok" ELSE "Some")
    /\ Visited(ty, out.v) = [i \in DOMAIN calls |-> calls[i].v]
    /\ ty = "Vec" => Len(out.v) = Len(src)
    /\ ty = "BTreeMap" =>
         /\ DOMAIN out.v = DOMAIN src
         /\ \A k \in DOMAIN src :
              out.v[k] = F1_call(TraverseFn(ap, fail), src[k]).v
    /\ src = <<>> => out.v = <<>>

C9_Witness ==
  /\ phase = "sequence" /\ ty = "ArrayVec" /\ ap = "Result"
  /\ src = <<Some(1), None, Some(2)>> /\ fail = {}
  /\ out = Ok(<<Some(10), Some(20)>>)

\* The ways of choosing one outcome for each element of a Vec, each listing
\* the chosen outcomes in element order, the choice for an earlier element
\* varying slowest.
RECURSIVE CrossProduct(_)
CrossProduct(rows) ==
  IF rows = <<>> THEN <<<<>>>>
  ELSE LET rest == CrossProduct(Tail(rows))
           row(x) == [j \in 1..Len(rest) |-> <<x>> \o rest[j]]
           go[i \in 0..Len(Head(rows))] ==
             IF i = 0 THEN <<>> ELSE go[i - 1] \o row(Head(rows)[i])
       IN  go[Len(Head(rows))]

\* C10: traversemm over a Vec into Vec yields one output for each way of
\* choosing one outcome per element, in the documented order: [2, 4] with
\* n -> [n * 10, n * 20] yields [[20, 40], [20, 80], [40, 40], [40, 80]].
C10_CrossProductOrder ==
  phase = "traversemm" =>
    out = CrossProduct([i \in DOMAIN src |-> F1_call(OutcomesFn(fail), src[i])])

\* -------------------------------------------------- callables: the claims
Arity == IF orig \in Fn2s THEN 2 ELSE 3
Curried == orig \in Fn2s \cup Fn3s
Called == cop \in {"call", "call1"}

\* C11: supplying the arguments one at a time through the curried chain,
\* by call or by call1, returns what the direct call of the original
\* callable returns for the same arguments in the same positions.
C11_CurriedEqualsDirect ==
  (Curried /\ Called /\ Len(supplied) = Arity) =>
    got = IF orig \in Fn2s
            THEN F2_call(orig, supplied[1], supplied[2])
            ELSE F3_call(orig, supplied[1], supplied[2], supplied[3])

C11_Witness ==
  /\ cop = "call" /\ orig = "f3"
  /\ supplied = <<Arg(1), Arg(2), Arg(1)>>
  /\ got = Ret("f3", <<Arg(1), Arg(2), Arg(1)>>)

\* C12: uncurry of a curried callable returns the original callable, and
\* is only applied to a chain node that has been given no argument.
C12_UncurryRoundTrip ==
  cop = "uncurry" => (got = Callable(orig) /\ given = <<>>)

C12_Witness == cop = "uncurry" /\ orig = "once3" /\ got = Callable("once3")

\* C13: supplying an argument that is not the last returns a chain node that
\* holds the arguments supplied so far and invokes nothing; supplying the
\* last argument invokes the original callable exactly once, with the
\* arguments supplied, and returns its result. Nothing else invokes it.
C13_InvokedOnLastArgument ==
  Curried =>
    /\ ~Called => last = <<>>
    /\ (Called /\ Len(supplied) < Arity) =>
         /\ last = <<>>
         /\ IsChainNode(got)
         /\ got.f = orig
         /\ IF orig \in Fn2s
              THEN got.a = Some(supplied[1]) /\ got.sa = "Invkd"
              ELSE /\ got.a = Just(supplied[1])
                   /\ got.b = IF Len(supplied) = 2 THEN Just(supplied[2]) ELSE Nothing
    /\ (Called /\ Len(supplied) = Arity) =>
         /\ last = <<Inv(orig, supplied)>>
         /\ got = Ret(orig, supplied)

C13_Witness ==
  /\ cop = "call1" /\ orig = "once2"
  /\ supplied = <<Arg(2), Arg(1)>>
  /\ last = <<Inv("once2", <<Arg(2), Arg(1)>>)>>

\* what the functions fs return when each is given what the one before it
\* returned, the first being given x
RECURSIVE Pipe(_, _)
Pipe(fs, x) == IF fs = <<>> THEN x ELSE Pipe(Tail(fs), Ret(Head(fs), <<x>>))

\* C14: a callable composed with chain, called with a, invokes the composed
\* functions once each in the order they were chained, each on what the one
\* before it returned, and returns what the last returns: f.chain(g) returns
\* g(f(a)) and f.chain(g).chain(h) returns h(g(f(a))). Composing invokes
\* nothing.
C14_ChainLeftToRight ==
  orig \in Fn1s =>
    /\ ~Called => last = <<>>
    /\ Called =>
         LET fs == Composed(called)
             a == supplied[1]
         IN  /\ Len(last) = Len(fs)
             /\ \A i \in DOMAIN fs :
                  last[i] = Inv(fs[i], <<Pipe(SubSeq(fs, 1, i - 1), a)>>)
             /\ got = Pipe(fs, a)

C14_Witness ==
  /\ cop = "call"
  /\ called = chain(chain(Callable("f"), Callable("g")), Callable("h"))
  /\ got = Ret("h", <<Ret("g", <<Ret("f", <<Arg(1)>>)>>)>>)
  /\ Len(last) = 3

\* The chain node a fresh curry of orig becomes when it is given args
RECURSIVE Fresh(_, _)
Fresh(c, args) ==
  IF args = <<>> THEN c ELSE Fresh(F1Once_call1(c, Head(args)).val, Tail(args))

\* C27: a call on a reference leaves the callable as it was, so a chain
\* node still holds its callable and the arguments supplied to reach it
\* after any number of calls, and a call returns what a fresh node given
\* the same arguments returns: no argument of an earlier call shows in it.
C27_CallKeepsNode ==
  /\ (cop = "call" /\ Curried) =>
       /\ node = Fresh(IF orig \in Fn2s THEN Curry2_curry(orig) ELSE Curry3_curry(orig),
                       given)
       /\ got = F1Once_call1(node, supplied[Len(supplied)]).val
  /\ (cop = "call" /\ orig \in Fn1s) =>
       /\ node = called
       /\ got = F1Once_call1(node, supplied[1]).val

\* an arity-2 node holding its first argument, called a third time
C27_Witness ==
  /\ cop = "call" /\ ncalls = 3
  /\ orig = "f2" /\ node.sa = "Invkd"
  /\ given = <<Arg(1)>> /\ supplied = <<Arg(1), Arg(2)>>
  /\ got = Ret("f2", <<Arg(1), Arg(2)>>)

\* C28: an arity-2 chain node waiting for its first argument stores none,
\* and one that has been given it stores exactly that argument, whatever
\* curry, call, call1 and clone operations came before; no call fails on a
\* missing stored argument.
C28_StoredArgument ==
  /\ node.fn = "Curry2" =>
       /\ node.sa = "Waiting" => (node.a = None /\ given = <<>>)
       /\ node.sa = "Invkd" => (Len(given) = 1 /\ node.a = Some(given[1]))
  /\ (orig \in Fn2s /\ got.fn = "Curry2") =>
       (got.sa = "Invkd" /\ got.a = Some(supplied[1]))
  /\ got # Unwound

\* a clone of a node that holds its first argument
C28_Witness ==
  /\ cop = "clone"
  /\ node.fn = "Curry2" /\ node.sa = "Invkd"
  /\ node.a = Some(Arg(2)) /\ given = <<Arg(2)>>

\* ------------------------------------------------------ folds: the claims
\* The elements of a container in its order: a Vec's elements, the elements
\* in an ArrayVec's occupied slots, a map's values by ascending key, the
\* value of a Some or an Ok.
Elements(F, self) ==
  CASE F = "Vec" -> self
    [] F = "ArrayVec" ->
         LET occ == SelectSeq(self, LAMBDA s : s.tag = "Some")
         IN  [i \in DOMAIN occ |-> occ[i].v]
    [] F = "BTreeMap" ->
         LET ks == Ascending(DOMAIN self) IN [i \in DOMAIN ks |-> self[ks[i]]]
    [] F \in {"Option", "Result"} ->
         IF self.tag \in {"Some", "Ok"} THEN <<self.v>> ELSE <<>>

Reverse(s) == [i \in DOMAIN s |-> s[Len(s) + 1 - i]]

\* f(...f(f(b, x1), x2)..., xn)
RECURSIVE LeftFold(_, _)
LeftFold(es, b) ==
  IF es = <<>> THEN b ELSE LeftFold(Tail(es), Ret("step", <<b, Head(es)>>))

\* f(x1, f(x2, ... f(xn, b)))
RECURSIVE RightFold(_, _)
RightFold(es, b) ==
  IF es = <<>> THEN b ELSE Ret("step", <<Head(es), RightFold(Tail(es), b)>>)

\* C15: foldr over a Vec, an ArrayVec or a BTreeMap folds from right to
\* left: it returns f(x1, f(x2, ... f(xn, b))) and the step function is
\* given the elements in the reverse of the order foldl gives them.
C15_FoldrRightToLeft ==
  (phase = "foldr" /\ ty \in {"Vec", "ArrayVec", "BTreeMap"}) =>
    /\ out = RightFold(Elements(ty, src), Seed)
    /\ calls = Reverse(Elements(ty, src))

\* C16: foldl folds from left to right: it returns
\* f(...f(f(b, x1), x2)..., xn), the step function being given the elements
\* in order; on an empty container it returns the seed and the step
\* function is not invoked.
C16_FoldlLeftToRight ==
  phase = "foldl" =>
    /\ out = LeftFold(Elements(ty, src), Seed)
    /\ calls = Elements(ty, src)
    /\ Elements(ty, src) = <<>> => (out = Seed /\ calls = <<>>)

C16_Witness ==
  /\ phase = "foldl" /\ ty = "Vec" /\ src = <<1, 2, 3>>
  /\ out = Ret("step", <<Ret("step", <<Ret("step", <<Seed, 1>>), 2>>), 3>>)

\* the places in fold order of the elements the function of find or
\* find_map matches
Matches ==
  {i \in DOMAIN Elements(ty, src) : Elements(ty, src)[i] \in arg}
FirstMatch == CHOOSE i \in Matches : \A j \in Matches : i <= j

\* C25: find returns Some of the first element, in fold order, that
\* satisfies the predicate, and find_map the first Some its function yields;
\* both return None when nothing matches, as on an empty container.
C25_FindFirst ==
  /\ phase = "find" =>
       out = IF Matches = {} THEN None ELSE Some(Elements(ty, src)[FirstMatch])
  /\ phase = "find_map" =>
       out = IF Matches = {} THEN None ELSE Some(Elements(ty, src)[FirstMatch] * 10)

\* two matching elements after one that does not match
C25_Witness ==
  /\ phase = "find" /\ ty = "ArrayVec"
  /\ src = <<Some(1), Some(3), Some(2)>> /\ arg = {2, 3}
  /\ out = Some(3)

\* C26: once the function of find_map has returned Some for an element it
\* is not invoked on any later element.
C26_StopsAtMatch ==
  phase = "find_map" =>
    \A i, j \in DOMAIN calls : (i < j) => calls[i].args[1] \notin arg

\* -------------------------------------------------- alt on maps: the claim
\* C17: alt and append of two maps yield a map whose keys are the keys of
\* either; a key of one operand only keeps that operand's value and a key of
\* both keeps the value of the receiver.
C17_AltLeftBiased ==
  phase \in {"alt", "append"} =>
    /\ DOMAIN out = DOMAIN src \cup DOMAIN arg
    /\ \A k \in DOMAIN out :
         out[k] = IF k \in DOMAIN src THEN src[k] ELSE arg[k]

C17_Witness ==
  /\ phase = "alt" /\ ty = "BTreeMap"
  /\ DOMAIN src = {1, 2} /\ src[1] = 1 /\ src[2] = 2
  /\ DOMAIN arg = {2, 3} /\ arg[2] = 3 /\ arg[3] = 4
  /\ DOMAIN out = {1, 2, 3} /\ out[1] = 1 /\ out[2] = 2 /\ out[3] = 4
\* ------------------------------------------------------------------ monads
\* C18: right identity: binding pure gives back the value bound, for every
\* value of Option, Result, Vec, ArrayVec and Id.
C18_RightIdentity ==
  phase = "bind_pure" => out = src

\* the right identity on the values it does hold for: every ArrayVec
\* without an empty slot, and every value of the other four
C18_RightIdentityNoEmptySlot ==
  (phase = "bind_pure"
     /\ (ty = "ArrayVec" => \A i \in DOMAIN src : src[i].tag = "Some"))
    => out = src

\* C19: associativity: binding f and then g gives what binding
\* |x| f(x).bind(g) gives, in the same order, for every value of Option,
\* Result, Vec, ArrayVec and Id.
C19_Associativity ==
  phase = "bind_bind" => out.l = out.r

\* associativity wherever the first bind of the left side stays within the
\* ArrayVec's capacity
C19_AssociativityWithinCapacity ==
  (phase = "bind_bind" /\ (ty = "ArrayVec" => ~IsPanic(out.l)))
    => out.l = out.r
\* C20: for Option and Result, bind on None or Err(e) returns that same
\* None or Err(e) and never invokes the function; apply1 with a failure-like
\* function container or argument returns a failure and never invokes the
\* contained function, and the Err it returns is the function container's
\* if that is an Err, else the argument's, payload unchanged.
C20_ShortCircuit ==
  /\ (phase = "bind" /\ ty \in {"Option", "Result"} /\ IsFailure(src))
       => (out = src /\ calls = <<>>)
  /\ (phase = "apply1" /\ (IsFailure(arg.fs) \/ IsFailure(src)))
       => /\ IsFailure(out)
          /\ calls = <<>>
          /\ ty = "Result" => out = (IF IsFailure(arg.fs) THEN arg.fs ELSE src)

\* an Err function container applied to an Err argument: no call, and the
\* function container's Err comes back
C20_Witness ==
  /\ phase = "apply1"
  /\ ty = "Result"
  /\ arg.fs = Err(1)
  /\ src = Err(2)
  /\ out = Err(1)
  /\ calls = <<>>
\* -------------------------------------------------------------- containers
\* C21: mapping the identity function over a container of any adapter gives
\* back the container: same shape, keys, order of elements, empty slots and
\* failure payload.
C21_FunctorIdentity ==
  phase = "fmap" => out = src

\* a HashMap of two entries and an ArrayVec with an empty slot, mapped
C21_Witness ==
  /\ phase = "fmap"
  /\ \/ ty = "HashMap" /\ DOMAIN src = {1, 3} /\ DOMAIN out = {1, 3}
        /\ out[1] = src[1] /\ out[3] = src[3] /\ src[1] # src[3]
     \/ ty = "ArrayVec" /\ src = <<Some(1), None, Some(2)>> /\ out = src
\* C22: for Option, Vec, ArrayVec, HashMap and BTreeMap the empty value is
\* an identity of alt on both sides: c.alt(empty()) and empty().alt(c) are c.
C22_PlusIdentity ==
  phase = "alt_empty" => (out.l = src /\ out.r = src)

\* a full ArrayVec, which alt with the empty one does not overflow
C22_Witness ==
  /\ phase = "alt_empty"
  /\ ty = "ArrayVec"
  /\ Len(src) = Capacity
  /\ out.l = src /\ out.r = src
\* C23: for String, Vec, Option of a Semigroup, Id of a Monoid, HashMap,
\* BTreeMap and ArrayVec the identity value is an identity of append on both
\* sides: x.append(identity()) and identity().append(x) are x.
C23_MonoidIdentity ==
  phase = "append_identity" => (out.l = src /\ out.r = src)

\* Some of a non-empty String, appended with None on either side
C23_Witness ==
  /\ phase = "append_identity"
  /\ ty = "Option<String>"
  /\ src = Some(<<"a", "b">>)
  /\ out.l = src /\ out.r = src
\* C29: apply of a map of functions to a map of arguments keeps exactly
\* the keys of both, each with the function at that key applied to the
\* argument at that key; the functions and arguments at the other keys
\* are dropped and no function is invoked for them.
C29_ApplyByKey ==
  phase = "apply" =>
    LET both == DOMAIN arg \cap DOMAIN src
    IN  /\ DOMAIN out = both
        /\ \A k \in both : out[k] = F1_call(arg[k], src[k])
        /\ Len(calls) = Cardinality(both)
        /\ \A i \in DOMAIN calls :
             \E k \in both : calls[i] = Inv(arg[k], <<src[k]>>)
        /\ \A k \in both : \E i \in DOMAIN calls : calls[i] = Inv(arg[k], <<src[k]>>)

\* a key of both maps, a key of the functions only, a key of the arguments
\* only
C29_Witness ==
  /\ phase = "apply" /\ ty = "HashMap"
  /\ DOMAIN arg = {1, 2} /\ DOMAIN src = {2, 3}
  /\ DOMAIN out = {2} /\ out[2] = F1_call(arg[2], src[2])
  /\ Len(calls) = 1
\* C30: an ArrayVec built from empty, pure, alt, fmap, apply and bind has
\* no empty slot: the length its fold counts is the number of its slots and
\* a fold visits the element of every slot, in order.
C30_NoEmptySlot ==
  ty = "ArrayVec" /\ phase \in {"empty", "pure", "alt", "fmap", "apply", "bind"} =>
    /\ \A i \in DOMAIN src : src[i].tag = "Some"
    /\ out = Len(src)
    /\ Len(calls) = Len(src)
    /\ \A i \in DOMAIN src : calls[i] = src[i].v

\* a full ArrayVec that a bind has built
C30_Witness ==
  /\ phase = "bind"
  /\ Len(src) = Capacity
  /\ src[1] = Some(1) /\ src[2] = Some(2) /\ src[3] = Some(2)

====
